---- MODULE Spec2Model ----
\* Dynamic Background plugin (src/main.ts): the style catalog, the bg block
\* parser, the intersection callback, apply/reset on view containers and the
\* plugin life cycle, as a state machine over the DOM state the plugin writes.
EXTENDS Integers, Sequences, FiniteSets, TLC

\* ------------------------------------------------------------------ bounds
MaxMarkers == 2      \* markers rendered (and observed) during a run
MaxBatch == 2        \* entries in one intersection batch
MaxSaves == 1        \* settings saves in flight at once

\* ------------------------------------------------------- 1. style catalog
\* The keys of STYLE_DEFINITIONS, in declaration order.
STYLE_DEFINITIONS ==
    <<"glass", "frost", "mist", "crisp", "card", "float", "zen", "off">>

keys == STYLE_DEFINITIONS

SeqRange(s) == {s[i] : i \in 1..Len(s)}

getClass(mode) == "bg-style-" \o mode

cssClasses == [i \in 1..Len(keys) |-> "bg-style-" \o keys[i]]

\* Property names every object literal inherits from Object.prototype; the
\* `in` operator of isValid looks a name up along the prototype chain.
ObjectPrototypeKeys == {"constructor", "toString", "valueOf", "hasOwnProperty"}

isValid(value) ==
    value \in SeqRange(STYLE_DEFINITIONS) \/ value \in ObjectPrototypeKeys

\* ----------------------------------------------------------- JS values
Undefined == "<undefined>"
Null == "<null>"

Truthy(v) == v # Undefined /\ v # Null /\ v # ""

\* ------------------------------------------------------------- 2. text
\* A line of block text is a sequence of pieces; a piece is a run of
\* characters that the parser never looks inside (":" , " " and the units
\* "px" and "rem" are pieces of their own).
Whitespace == {" ", "\t"}

RECURSIVE Str(_)
Str(ps) == IF ps = <<>> THEN "" ELSE Head(ps) \o Str(Tail(ps))

RECURSIVE TrimStart(_)
TrimStart(ps) ==
    IF ps # <<>> /\ Head(ps) \in Whitespace THEN TrimStart(Tail(ps)) ELSE ps

RECURSIVE TrimEnd(_)
TrimEnd(ps) ==
    IF ps # <<>> /\ ps[Len(ps)] \in Whitespace
    THEN TrimEnd(SubSeq(ps, 1, Len(ps) - 1))
    ELSE ps

trim(ps) == TrimEnd(TrimStart(ps))

LowerPiece(p) ==
    CASE p = "PATH" -> "path"
      [] p = "Style" -> "style"
      [] p = "BLUR" -> "blur"
      [] OTHER -> p

toLowerCase(ps) == [i \in 1..Len(ps) |-> LowerPiece(ps[i])]

\* line.split(':'): the pieces between the colons, at least one part.
RECURSIVE split(_)
split(ps) ==
    IF \A i \in 1..Len(ps) : ps[i] # ":"
    THEN <<ps>>
    ELSE LET k == CHOOSE i \in 1..Len(ps) :
                      ps[i] = ":" /\ \A j \in 1..(i - 1) : ps[j] # ":"
         IN <<SubSeq(ps, 1, k - 1)>> \o split(SubSeq(ps, k + 1, Len(ps)))

\* parts.join(':')
RECURSIVE join(_)
join(parts) ==
    IF Len(parts) = 0 THEN <<>>
    ELSE IF Len(parts) = 1 THEN parts[1]
    ELSE parts[1] \o <<":">> \o join(Tail(parts))

endsWith(ps, unit) == ps # <<>> /\ ps[Len(ps)] = unit

\* ------------------------------------------------------ path resolver
\* Link paths the vault resolves to a file.
VaultFiles == {"a.png", "b.png"}

getImgPath(fileName) ==
    IF fileName \in VaultFiles THEN "app://vault/" \o fileName ELSE Null

\* ------------------------------------------------------------ 3. parser
\* A settings object created without the repeat property.
BgDefaultsShort ==
    [path |-> "", blur |-> "0px", opacity |-> "1", size |-> "cover",
     position |-> "center center"]

BgDefaults ==
    [path |-> "", blur |-> "0px", opacity |-> "1", size |-> "cover",
     position |-> "center center", repeat |-> "no-repeat"]

\* obj.key = value on a record that may not have the key yet.
SetField(s, k, v) ==
    [f \in DOMAIN s \cup {k} |-> IF f = k THEN v ELSE s[f]]

\* obj.key, undefined when the property is absent.
GetField(s, k) == IF k \in DOMAIN s THEN s[k] ELSE Undefined

\* A coercion that appends the unit to every value.
blurAlwaysPx(v) == Str(v) \o "px"

blurValue(v) ==
    IF endsWith(v, "px") \/ endsWith(v, "rem") \/ Str(v) = "0"
    THEN Str(v)
    ELSE Str(v) \o "px"

parseLine(settings, line) ==
    LET parts == split(line) IN
    IF Len(parts) < 2 THEN settings
    ELSE
      LET key == Str(toLowerCase(trim(parts[1])))
          v == trim(join(Tail(parts)))
          value == Str(v)
      IN CASE key = "path" ->
                LET r == getImgPath(value)
                IN SetField(settings, "path", IF Truthy(r) THEN r ELSE "")
           [] key = "blur" -> SetField(settings, "blur", blurValue(v))
           [] key = "opacity" -> SetField(settings, "opacity", value)
           [] key = "size" -> SetField(settings, "size", value)
           [] key = "position" -> SetField(settings, "position", value)
           [] key = "repeat" -> SetField(settings, "repeat", value)
           [] key = "style" ->
                IF isValid(value) THEN SetField(settings, "style", value)
                ELSE settings
           [] OTHER -> settings

\* A parser that reads the lines from the last one to the first.
RECURSIVE parseLinesBackwards(_, _)
parseLinesBackwards(settings, lines) ==
    IF lines = <<>> THEN settings
    ELSE parseLinesBackwards(parseLine(settings, lines[Len(lines)]),
                             SubSeq(lines, 1, Len(lines) - 1))

RECURSIVE parseLines(_, _)
parseLines(settings, lines) ==
    IF lines = <<>> THEN settings
    ELSE parseLines(parseLine(settings, Head(lines)), Tail(lines))

parseSettings(source) == parseLines(BgDefaults, source)

\* --------------------------------------------------------------- JSON
\* JSON.stringify of a BgSettings: its own properties in insertion order,
\* as <<name, value>> pairs; an absent style is not written.
PropertyOrder ==
    <<"path", "blur", "opacity", "size", "position", "repeat", "style">>

JSONstringify(s) ==
    LET present == SelectSeq(PropertyOrder, LAMBDA k : k \in DOMAIN s)
    IN [i \in 1..Len(present) |-> <<present[i], s[present[i]]>>]

JSONparse(j) ==
    [k \in {j[i][1] : i \in 1..Len(j)} |->
        (CHOOSE p \in SeqRange(j) : p[1] = k)[2]]

\* ------------------------------------------------------------ 4. state
VARIABLES
    pc,          \* "constructed", "running" (after onload), "unloaded"
    settings,    \* this.settings
    saving,      \* saveData calls of saveSettings still awaited
    body,        \* document.body.classList
    activeLeaf,  \* app.workspace.activeLeaf, or Null
    containers,  \* contentEl of each leaf that has a view: classList and its
                 \* .custom-bg-layer children, first child first
    markers,     \* the .bg-marker elements created so far, all observed:
                 \* status "attached" (in the document), "detaching" (taken
                 \* out, entries queued before that still undelivered) or
                 \* "detached"
    once,        \* per container: the apply call that produced its current
                 \* state, when an apply was the last operation on it
    last         \* the handler that ran last, with what it was given

vars == <<pc, settings, saving, body, activeLeaf, containers, markers,
          once, last>>

\* The leaves that have a view, and so a content container.
Views == DOMAIN containers

\* A leaf whose view is not there.
DeferredLeaf == "L0"

DEFAULT_SETTINGS == [styleMode |-> "glass"]

CleanContainer == [classList |-> {}, layers |-> <<>>]

\* ------------------------------------------------- 5. plugin operations
\* Object.assign({}, DEFAULT_SETTINGS, data): data's own properties win.
loadSettings(data) ==
    [k \in DOMAIN DEFAULT_SETTINGS |->
        IF \E p \in data : p[1] = k
        THEN (CHOOSE p \in data : p[1] = k)[2]
        ELSE DEFAULT_SETTINGS[k]]

\* document.body.classList after updateStyleClass.
updateStyleClass(classList, styleMode) ==
    (classList \ SeqRange(cssClasses)) \cup {getClass(styleMode)}

layerStyle(s) ==
    [backgroundImage |-> "url('" \o s.path \o "')",
     backgroundSize |-> s.size,
     backgroundPosition |-> s.position,
     backgroundRepeat |-> s.repeat,
     opacity |-> s.opacity,
     filter |-> "blur(" \o s.blur \o ")",
     transition |-> "all 0.5s ease-in-out"]

\* document.createElement('div') with className custom-bg-layer.
NewLayer == [transition |-> ""]

effectiveStyleOf(s, styleMode) ==
    IF Truthy(GetField(s, "style")) THEN s.style ELSE styleMode

\* The container of the active view after applySettingsToActiveLeaf.
applyToContainer(c, s, styleMode) ==
    LET added == c.classList \cup {"has-custom-bg"}
        removed == added \ SeqRange(cssClasses)
        classes == removed \cup {getClass(effectiveStyleOf(s, styleMode))}
        children == IF c.layers = <<>> THEN <<NewLayer>> ELSE c.layers
    IN [classList |-> classes,
        layers |-> <<layerStyle(s)>> \o Tail(children)]

\* An apply that falls back to some view when the active leaf has none.
applyToSomeLeaf(cs, leaf, s, styleMode) ==
    LET target == IF leaf = Null \/ leaf \notin DOMAIN cs
                  THEN CHOOSE l \in DOMAIN cs : TRUE ELSE leaf
    IN [cs EXCEPT ![target] = applyToContainer(cs[target], s, styleMode)]

\* All containers after applySettingsToActiveLeaf(s).
applySettingsToActiveLeaf(cs, leaf, s, styleMode) ==
    IF leaf = Null \/ leaf \notin DOMAIN cs THEN cs
    ELSE [cs EXCEPT ![leaf] = applyToContainer(cs[leaf], s, styleMode)]

\* A reset that leaves the layer element in place.
resetKeepsLayer(c) ==
    [classList |-> (c.classList \ {"has-custom-bg"}) \ SeqRange(cssClasses),
     layers |-> c.layers]

resetContainer(c) ==
    [classList |-> (c.classList \ {"has-custom-bg"}) \ SeqRange(cssClasses),
     layers |-> IF c.layers = <<>> THEN <<>> ELSE Tail(c.layers)]

\* All containers after resetBackground(leaf).
resetBackground(cs, leaf) ==
    IF leaf = Null \/ leaf \notin DOMAIN cs THEN cs
    ELSE [cs EXCEPT ![leaf] = resetContainer(cs[leaf])]

\* --------------------------------------------------------- 6. inputs
KV(k, v) == <<k, ":", " ">> \o v

\* bg blocks: a plain one, one with a catalog style, one whose style names
\* an inherited property, one with an unknown style, two without a usable
\* path.
PlainBlock == <<KV("path", <<"a.png">>)>>
FrostBlock ==
    <<KV("PATH", <<"b.png">>), KV("Style", <<"frost">>), KV("blur", <<"5">>)>>
ToStringBlock == <<KV("path", <<"a.png">>), KV("style", <<"toString">>)>>
NeonBlock == <<KV("path", <<"a.png">>), KV("style", <<"neon">>)>>
MissingBlock == <<KV("path", <<"missing.png">>), KV("blur", <<"5", "px">>)>>
NoPathBlock == <<KV("blur", <<"2", "rem">>), <<"no colon here">>>>

\* What loadData may hand back: nothing stored, or a stored styleMode.
NothingStored == {}
NeonStored == {<<"styleMode", "neon">>}

\* The batches the observer may deliver: distinct observed markers in any
\* order, each entry holding its target element. A marker that left the
\* document is reported as intersecting only by an entry that was queued
\* before it left.
Batches ==
    LET E == {e \in [target : markers, isIntersecting : BOOLEAN] :
                 e.isIntersecting => e.target.status # "detached"}
    IN UNION { {b \in [1..n -> E] :
                  \A i, j \in 1..n : i # j => b[i].target # b[j].target}
               : n \in 1..MaxBatch }

\* ------------------------------------------------------------ 7. actions
InitWith(leaves) ==
    /\ pc = "constructed"
    /\ settings = [styleMode |-> Undefined]
    /\ saving = 0
    /\ body = {}
    /\ activeLeaf = "L1"
    /\ containers = [l \in leaves |-> CleanContainer]
    /\ markers = {}
    /\ once = [l \in leaves |-> <<>>]
    /\ last = [op |-> "new"]

\* onload: loadSettings, updateStyleClass, observer and handlers set up.
OnLoad(data) ==
    /\ pc = "constructed"
    /\ pc' = "running"
    /\ settings' = loadSettings(data)
    /\ body' = updateStyleClass(body, settings'.styleMode)
    /\ last' = [op |-> "load"]
    /\ UNCHANGED <<saving, activeLeaf, containers, markers, once>>

\* The marker element the block processor creates in leaf l.
NewMarker(l, s) ==
    [leaf |-> l, dataset |-> JSONstringify(s), status |-> "attached"]

\* A processor that creates the marker whatever the path.
hasPathAlways(s) == TRUE

\* if (settings.path)
hasPath(s) == Truthy(s.path)

\* settings.path.split('/').pop().split('?')[0] of a resource path.
cleanName(path) ==
    IF \E f \in VaultFiles : path = "app://vault/" \o f
    THEN CHOOSE f \in VaultFiles : path = "app://vault/" \o f
    ELSE ""

\* The text of the bg-info element and of its sub-text children (the
\* leading pictograms left out).
infoAnnotation(s) ==
    <<cleanName(s.path)>>
        \o (IF s.blur # "0px" THEN <<"Blur: " \o s.blur>> ELSE <<>>)

\* The bg code block processor, for a block of the document in leaf l.
RenderBlock(l, source) ==
    /\ pc = "running"
    /\ LET s == parseSettings(source) IN
       IF hasPath(s)
       THEN /\ Cardinality(markers) < MaxMarkers
            /\ NewMarker(l, s) \notin markers
            /\ markers' = markers \cup {NewMarker(l, s)}
            /\ last' = [op |-> "render", path |-> s.path,
                        result |-> "bg-marker", blur |-> s.blur,
                        info |-> infoAnnotation(s)]
       ELSE /\ markers' = markers
            /\ last' = [op |-> "render", path |-> s.path,
                        result |-> "bg-error"]
    /\ UNCHANGED <<pc, settings, saving, body, activeLeaf, containers,
                   once>>

\* The host takes the rendered blocks of leaf l out of the document.
Unmount(l) ==
    /\ \E m \in markers : m.leaf = l /\ m.status = "attached"
    /\ markers' = {IF m.leaf = l /\ m.status = "attached"
                   THEN [m EXCEPT !.status = "detaching"] ELSE m
                     : m \in markers}
    /\ UNCHANGED <<pc, settings, saving, body, activeLeaf, containers,
                   once, last>>

\* A callback that takes the last intersecting entry.
findLast(entries) ==
    IF \E i \in 1..Len(entries) : entries[i].isIntersecting
    THEN CHOOSE i \in 1..Len(entries) :
            /\ entries[i].isIntersecting
            /\ \A j \in (i + 1)..Len(entries) : ~entries[j].isIntersecting
    ELSE 0

\* entries.find(e => e.isIntersecting): index of the first one, 0 if none.
find(entries) ==
    IF \E i \in 1..Len(entries) : entries[i].isIntersecting
    THEN CHOOSE i \in 1..Len(entries) :
            /\ entries[i].isIntersecting
            /\ \A j \in 1..(i - 1) : ~entries[j].isIntersecting
    ELSE 0

\* The settings objects the callback passes to applySettingsToActiveLeaf.
callbackCalls(entries) ==
    LET e == find(entries) IN
    IF e = 0 THEN <<>>
    ELSE LET settingsJson == entries[e].target.dataset IN
         IF settingsJson # <<>> THEN <<JSONparse(settingsJson)>> ELSE <<>>

\* What a batch holds, for the record of the last handler: the dataset of
\* the entry that is intersecting and has no intersecting entry before it
\* (<<>> when no entry is intersecting), and the datasets of the
\* intersecting entries after that one.
intersectingAt(entries) == {i \in 1..Len(entries) : entries[i].isIntersecting}

firstIntersecting(entries) ==
    IF intersectingAt(entries) = {} THEN <<>>
    ELSE LET i == CHOOSE k \in intersectingAt(entries) :
                     \A j \in intersectingAt(entries) : k <= j
         IN entries[i].target.dataset

laterIntersecting(entries) ==
    {entries[i].target.dataset :
        i \in {k \in intersectingAt(entries) :
                 \E j \in intersectingAt(entries) : j < k}}

\* The IntersectionObserver callback on a delivered batch. After onunload
\* disconnected the observer, only entries queued before can be delivered.
ObserverCallback(entries) ==
    /\ pc \in {"running", "unloaded"}
    /\ pc' = IF pc = "unloaded" THEN "drained" ELSE pc
    /\ markers' = {IF m.status = "detaching"
                   THEN [m EXCEPT !.status = "detached"] ELSE m : m \in markers}
    /\ LET calls == callbackCalls(entries)
           e == find(entries)
           previous == IF activeLeaf \in Views THEN once[activeLeaf] ELSE <<>>
       IN
       /\ containers' =
             IF calls = <<>> THEN containers
             ELSE applySettingsToActiveLeaf(containers, activeLeaf, calls[1],
                                            settings.styleMode)
       /\ once' =
             IF calls # <<>> /\ activeLeaf \in Views
             THEN [once EXCEPT ![activeLeaf] =
                     <<[cfg |-> calls[1], g |-> settings.styleMode,
                        clean |-> containers[activeLeaf] = CleanContainer]>>]
             ELSE once
       /\ last' = [op |-> "batch", calls |-> calls,
                   first |-> firstIntersecting(entries),
                   later |-> laterIntersecting(entries),
                   stale |-> e # 0 /\ entries[e].target.status # "attached",
                   again |-> calls # <<>> /\ previous # <<>>
                             /\ previous[1].cfg = calls[1]
                             /\ previous[1].g = settings.styleMode,
                   fresh |-> calls # <<>> /\ previous # <<>>
                             /\ previous[1].clean
                             /\ previous[1].cfg # calls[1]
                             /\ previous[1].g = settings.styleMode,
                   changed |-> containers' # containers]
    /\ UNCHANGED <<settings, saving, body, activeLeaf>>

\* The active-leaf-change handler, called with the leaf that became active.
ActiveLeafChange(leaf) ==
    /\ pc = "running"
    /\ leaf # activeLeaf
    /\ activeLeaf' = leaf
    /\ containers' = resetBackground(containers, leaf)
    /\ body' = updateStyleClass(body, settings.styleMode)
    /\ once' = IF leaf \in Views THEN [once EXCEPT ![leaf] = <<>>] ELSE once
    /\ last' = [op |-> "switch", from |-> activeLeaf,
                had |-> leaf \in Views /\ containers[leaf].layers # <<>>]
    /\ UNCHANGED <<pc, settings, saving, markers>>

\* The dropdown's onChange up to the await inside saveSettings.
SettingsChange(value) ==
    /\ pc = "running"
    /\ saving < MaxSaves
    /\ IF isValid(value)
       THEN /\ settings' = [settings EXCEPT !.styleMode = value]
            /\ saving' = saving + 1
       ELSE UNCHANGED <<settings, saving>>
    /\ last' = [op |-> "change"]
    /\ UNCHANGED <<pc, body, activeLeaf, containers, markers, once>>

\* saveSettings after saveData resolved: updateStyleClass.
SaveDone ==
    /\ saving > 0
    /\ saving' = saving - 1
    /\ body' = updateStyleClass(body, settings.styleMode)
    /\ last' = [op |-> "saved"]
    /\ UNCHANGED <<pc, settings, activeLeaf, containers, markers, once>>

\* A container after onunload removed its layers and has-custom-bg.
unloadContainer(c) ==
    [classList |-> c.classList \ {"has-custom-bg"}, layers |-> <<>>]

\* onunload: disconnect, strip the body classes, remove every layer and
\* every has-custom-bg class in the document.
OnUnload ==
    /\ pc = "running"
    /\ pc' = "unloaded"
    /\ body' = body \ SeqRange(cssClasses)
    /\ containers' = [l \in Views |-> unloadContainer(containers[l])]
    /\ once' = [l \in Views |-> <<>>]
    /\ last' = [op |-> "unload"]
    /\ UNCHANGED <<settings, saving, activeLeaf, markers>>

\* One leaf with a view, every kind of block, nothing stored.
OneLeaf == {"L1"}
AllBlocks ==
    {PlainBlock, FrostBlock, ToStringBlock, NeonBlock, MissingBlock, NoPathBlock}

Init == InitWith(OneLeaf)

Next ==
    \/ OnLoad(NothingStored)
    \/ \E source \in AllBlocks : RenderBlock("L1", source)
    \/ Unmount("L1")
    \/ \E entries \in Batches : ObserverCallback(entries)
    \/ \E leaf \in OneLeaf \cup {DeferredLeaf, Null} : ActiveLeafChange(leaf)
    \/ OnUnload

Spec == Init /\ [][Next]_vars

\* Two leaves with a view, side by side.
TwoLeaves == {"L1", "L2"}
SomeBlocks == {PlainBlock, FrostBlock, NoPathBlock}

InitTwo == InitWith(TwoLeaves)

NextTwo ==
    \/ OnLoad(NothingStored)
    \/ \E l \in TwoLeaves, source \in SomeBlocks : RenderBlock(l, source)
    \/ \E l \in TwoLeaves : Unmount(l)
    \/ \E entries \in Batches : ObserverCallback(entries)
    \/ \E leaf \in TwoLeaves \cup {Null} : ActiveLeafChange(leaf)
    \/ OnUnload

SpecTwo == InitTwo /\ [][NextTwo]_vars

\* One leaf with a view, stored settings and the settings tab in use.
NextSettings ==
    \/ \E data \in {NothingStored, NeonStored} : OnLoad(data)
    \/ \E source \in {PlainBlock, FrostBlock} : RenderBlock("L1", source)
    \/ \E entries \in Batches : ObserverCallback(entries)
    \/ \E leaf \in OneLeaf \cup {DeferredLeaf, Null} : ActiveLeafChange(leaf)
    \/ \E value \in {"glass", "frost"} : SettingsChange(value)
    \/ SaveDone
    \/ OnUnload

SpecSettings == Init /\ [][NextSettings]_vars

\* One leaf with a view, blocks that differ in their blur line only.
ZeroPxBlock == <<KV("path", <<"a.png">>), KV("blur", <<"0", "px">>)>>
ZeroBlock == <<KV("path", <<"a.png">>), KV("blur", <<"0">>)>>
FiveBlock == <<KV("path", <<"a.png">>), KV("blur", <<"5">>)>>
BlurBlocks == {PlainBlock, ZeroPxBlock, ZeroBlock, FiveBlock}

NextInfo ==
    \/ OnLoad(NothingStored)
    \/ \E source \in BlurBlocks : RenderBlock("L1", source)
    \/ Unmount("L1")
    \/ \E entries \in Batches : ObserverCallback(entries)
    \/ OnUnload

SpecInfo == Init /\ [][NextInfo]_vars

\* One leaf with a view, and the active leaf moving to a leaf without a
\* view or to none at all while batches keep arriving.
NextNoView ==
    \/ OnLoad(NothingStored)
    \/ \E source \in {PlainBlock, FrostBlock, ToStringBlock} :
          RenderBlock("L1", source)
    \/ \E entries \in Batches : ObserverCallback(entries)
    \/ \E leaf \in OneLeaf \cup {DeferredLeaf, Null} : ActiveLeafChange(leaf)
    \/ OnUnload

SpecNoView == Init /\ [][NextNoView]_vars

\* ------------------------------------------------------------ 8. claims
CatalogClasses == {"bg-style-" \o k : k \in SeqRange(STYLE_DEFINITIONS)}

\* Every style value that occurs in a block or in the stored settings.
StyleValues ==
    SeqRange(STYLE_DEFINITIONS) \cup ObjectPrototypeKeys \cup {"neon"}

\* The bg-style-* classes on a container.
StyleClassesOn(c) == c.classList \cap {"bg-style-" \o v : v \in StyleValues}

\* The configuration and the global default of the apply call the last
\* batch made on the active container.
Applied == last.op = "batch" /\ last.calls # <<>> /\ activeLeaf \in Views
AppliedStyle ==
    IF "style" \in DOMAIN last.calls[1] THEN last.calls[1].style
    ELSE settings.styleMode

NoBackground(c) ==
    /\ "has-custom-bg" \notin c.classList
    /\ c.classList \cap CatalogClasses = {}
    /\ c.layers = <<>>

\* C1: apply(A) then apply(B), A # B, on a clean active container leaves
\* what apply(B) alone leaves on a clean container: one layer with B's
\* properties, has-custom-bg and the class of B's effective style only.
C1_Supersedes ==
    (Applied /\ last.fresh) =>
        containers[activeLeaf] =
            [classList |-> {"has-custom-bg", "bg-style-" \o AppliedStyle},
             layers |-> <<layerStyle(last.calls[1])>>]

\* C2: a second apply with the same config right after the first changes
\* nothing, and the container holds one layer and one style class.
C2_Idempotent ==
    (Applied /\ last.again) =>
        /\ ~last.changed
        /\ Len(containers[activeLeaf].layers) = 1
        /\ Cardinality(StyleClassesOn(containers[activeLeaf])) = 1

\* C3: after resetBackground on a leaf, its container has no has-custom-bg
\* class, no catalog style class and no layer element.
C3_ResetClears ==
    (last.op = "switch" /\ activeLeaf \in Views) =>
        NoBackground(containers[activeLeaf])

C3_Witness ==
    last.op = "switch" /\ activeLeaf \in Views /\ last.had

\* C4: after apply the class of the effective style is on the container,
\* and when the config's own style s differs from the global default g,
\* the class of s is present and the class of g is absent.
C4_Precedence ==
    Applied =>
        /\ ("bg-style-" \o AppliedStyle) \in containers[activeLeaf].classList
        /\ ("style" \in DOMAIN last.calls[1]
               /\ last.calls[1].style # settings.styleMode) =>
             /\ ("bg-style-" \o last.calls[1].style)
                    \in containers[activeLeaf].classList
             /\ ("bg-style-" \o settings.styleMode)
                    \notin containers[activeLeaf].classList

\* C5: right after a switch from a view P to a view N the container of P
\* has no background, and the body carries the global default style class.
C5_PreviousReset ==
    (last.op = "switch" /\ last.from \in Views /\ activeLeaf \in Views) =>
        /\ NoBackground(containers[last.from])
        /\ ("bg-style-" \o settings.styleMode) \in body

\* C6: a layer on a container shows the config of a marker that was
\* rendered in the document of that container.
C6_NoForeignLayer ==
    \A l \in Views :
        containers[l].layers # <<>> =>
            \E m \in markers :
                /\ m.leaf = l
                /\ layerStyle(JSONparse(m.dataset)) = containers[l].layers[1]

\* C7: a batch whose intersecting entry targets a marker that is no longer
\* in the document changes no container.
C7_StaleIsNoOp ==
    (last.op = "batch" /\ last.stale) => ~last.changed

\* C8: a batch with an intersecting entry makes one apply call, with the
\* config of the first intersecting entry; a batch without one makes no
\* call and changes no container.
C8_FirstIntersecting ==
    last.op = "batch" =>
        IF last.first # <<>>
        THEN /\ Len(last.calls) = 1
             /\ JSONstringify(last.calls[1]) = last.first
        ELSE last.calls = <<>> /\ ~last.changed

C8_Witness ==
    /\ last.op = "batch"
    /\ last.first # <<>>
    /\ last.later # {}
    /\ last.first \notin last.later
    /\ last.changed

\* C9: no marker, no apply call and no layer carries an empty image path;
\* a block is rendered as a marker exactly when its parsed path is not
\* empty, and as the error annotation otherwise.
C9_NoEmptyPath ==
    /\ \A m \in markers :
          \E i \in 1..Len(m.dataset) :
              m.dataset[i][1] = "path" /\ m.dataset[i][2] # ""
    /\ last.op = "batch" =>
          \A i \in 1..Len(last.calls) : last.calls[i].path # ""
    /\ \A l \in Views :
          \A i \in 1..Len(containers[l].layers) :
              containers[l].layers[i].backgroundImage # "url('')"
    /\ last.op = "render" =>
          (last.result = "bg-marker" <=> last.path # "")

C9_Witness ==
    /\ last.op = "render"
    /\ last.result = "bg-error"
    /\ \E l \in Views : containers[l].layers # <<>>

\* C10: no value outside the catalog is accepted by isValid, becomes the
\* style of a parsed config or a style class on a container.
C10_CatalogOnly ==
    /\ \A m \in markers :
          \A i \in 1..Len(m.dataset) :
              m.dataset[i][1] = "style" =>
                  m.dataset[i][2] \in SeqRange(STYLE_DEFINITIONS)
    /\ \A l \in Views : StyleClassesOn(containers[l]) \subseteq CatalogClasses

\* C11: after loadSettings, whatever the settings store returned, the
\* global preference is a catalog identifier and the class updateStyleClass
\* puts on the body is a catalog class.
C11_StoredStyleIgnored ==
    last.op = "load" =>
        /\ settings.styleMode \in SeqRange(STYLE_DEFINITIONS)
        /\ body \subseteq CatalogClasses

\* C12: after onunload the body has no catalog style class, no container
\* has has-custom-bg or a catalog style class, and no layer exists.
C12_UnloadLeavesNothing ==
    last.op = "unload" =>
        /\ body \cap CatalogClasses = {}
        /\ \A l \in Views : NoBackground(containers[l])

\* C13: while the plugin runs and no settings save is in flight, the body
\* carries exactly one catalog style class, the class of settings.styleMode.
C13_BodyClassIsPreference ==
    (pc = "running" /\ saving = 0) =>
        body \cap CatalogClasses = {getClass(settings.styleMode)}

\* ------------------------------------------------------ 9. parser claims
\* Lines of block text: every recognized key with more than one value,
\* keys in upper case, values with colons and surrounding blanks, an empty
\* value, an unknown key, an empty key, a line without a colon, an empty
\* line.
MaxLines == 2        \* lines of one block text

Lines ==
    {KV("path", <<"a.png">>), KV("PATH", <<"b.png">>),
     KV("path", <<"missing.png">>),
     <<" ", "path", " ", ":", "a.png", "\t">>,
     KV("blur", <<"5">>), KV("blur", <<"5", "px">>), KV("blur", <<"0">>),
     KV("blur", <<"0", "px">>), KV("BLUR", <<"2", "rem">>),
     KV("blur", <<>>),
     KV("opacity", <<"0.2">>), KV("opacity", <<"0.9">>),
     KV("size", <<"contain">>), KV("size", <<"100%">>),
     KV("position", <<"top">>), KV("position", <<"12", ":", "30">>),
     KV("repeat", <<"repeat">>), KV("repeat", <<"repeat-x">>),
     KV("style", <<"frost">>), KV("Style", <<"zen">>),
     KV("style", <<"neon">>), KV("style", <<"toString">>),
     KV("colour", <<"red">>), <<":", " ", "5">>,
     <<"no colon here">>, <<>>}

\* The block texts of at most MaxLines lines.
Texts == UNION {[1..n -> Lines] : n \in 0..MaxLines}

\* A block text handed to the parser.
InitParser ==
    /\ pc = "constructed"
    /\ settings = [styleMode |-> Undefined]
    /\ saving = 0
    /\ body = {}
    /\ activeLeaf = "L1"
    /\ containers = [l \in OneLeaf |-> CleanContainer]
    /\ markers = {}
    /\ once = [l \in OneLeaf |-> <<>>]
    /\ \E source \in Texts : last = [op |-> "new", source |-> source]

\* parseSettings(source, sourcePath) on the text.
ParseSettings ==
    /\ last.op = "new"
    /\ last' = [op |-> "parse", source |-> last.source,
                result |-> parseSettings(last.source)]
    /\ UNCHANGED <<pc, settings, saving, body, activeLeaf, containers,
                   markers, once>>

NextParser == ParseSettings

SpecParser == InitParser /\ [][NextParser]_vars

RecognizedKeys ==
    {"path", "blur", "opacity", "size", "position", "repeat", "style"}

\* The key and the value the parser reads from a line (Undefined for a
\* line without a colon).
keyOf(line) ==
    IF Len(split(line)) < 2 THEN Undefined
    ELSE Str(toLowerCase(trim(split(line)[1])))

valueOf(line) == Str(trim(join(Tail(split(line)))))

\* The lines of a text on which key k occurs.
occurrences(source, k) == {i \in 1..Len(source) : keyOf(source[i]) = k}

\* The text with only the lines at the positions in keep.
RECURSIVE keepLines(_, _, _)
keepLines(source, keep, i) ==
    IF i > Len(source) THEN <<>>
    ELSE (IF i \in keep THEN <<source[i]>> ELSE <<>>)
            \o keepLines(source, keep, i + 1)

Latest(S) == CHOOSE i \in S : \A j \in S : j <= i

\* The text with every occurrence of k removed except the last one.
onlyLast(source, k) ==
    LET occ == occurrences(source, k)
    IN keepLines(source,
                 ((1..Len(source)) \ occ)
                     \cup (IF occ = {} THEN {} ELSE {Latest(occ)}), 1)

\* The text with every style line removed except the last one whose value
\* isValid accepts.
onlyLastValidStyle(source) ==
    LET occ == occurrences(source, "style")
        ok == {i \in occ : isValid(valueOf(source[i]))}
    IN keepLines(source,
                 ((1..Len(source)) \ occ)
                     \cup (IF ok = {} THEN {} ELSE {Latest(ok)}), 1)

\* C14: for every recognized key that occurs on several lines, the field
\* of the parsed config equals the field obtained by parsing the text with
\* all but the last occurrence of that key removed.
C14_LastOccurrenceWins ==
    last.op = "parse" =>
        \A k \in RecognizedKeys :
            Cardinality(occurrences(last.source, k)) > 1 =>
                GetField(last.result, k)
                    = GetField(parseSettings(onlyLast(last.source, k)), k)

\* C14, amended: the above for path, blur, opacity, size, position and
\* repeat; for style, the field equals the one obtained by parsing the
\* text with all style lines removed except the last one whose value
\* isValid accepts (a later style line with a rejected value leaves the
\* earlier style in place).
C14_LastAcceptedWins ==
    last.op = "parse" =>
        /\ \A k \in RecognizedKeys \ {"style"} :
              Cardinality(occurrences(last.source, k)) > 1 =>
                  GetField(last.result, k)
                      = GetField(parseSettings(onlyLast(last.source, k)), k)
        /\ Cardinality(occurrences(last.source, "style")) > 1 =>
              GetField(last.result, "style")
                  = GetField(parseSettings(onlyLastValidStyle(last.source)),
                             "style")

C14_Witness ==
    /\ last.op = "parse"
    /\ Len(last.source) = 2
    /\ keyOf(last.source[1]) = "style" /\ isValid(valueOf(last.source[1]))
    /\ keyOf(last.source[2]) = "style" /\ ~isValid(valueOf(last.source[2]))
    /\ GetField(last.result, "style") = valueOf(last.source[1])

\* The blur values of Lines, with the field each is to become.
BlurExpected ==
    [v \in {"5", "5px", "0", "0px", "2rem", ""} |->
        CASE v = "5" -> "5px"
          [] v = "" -> "px"
          [] OTHER -> v]

\* C15: the blur field is the trimmed value v itself when v ends in px or
\* rem or is exactly "0", and v followed by "px" otherwise (5 -> 5px,
\* 5px -> 5px, 0 -> 0, 2rem -> 2rem); without a blur line it is "0px".
C15_BlurCoercion ==
    last.op = "parse" =>
        LET occ == occurrences(last.source, "blur") IN
        IF occ = {} THEN last.result.blur = "0px"
        ELSE last.result.blur
                = BlurExpected[valueOf(last.source[Latest(occ)])]

C15_Witness ==
    /\ last.op = "parse"
    /\ \E i \in occurrences(last.source, "blur") :
          valueOf(last.source[i]) = "0"
    /\ last.result.blur = "0"

\* The lines of a text the parser is to skip: no colon, or a key that is
\* not a recognized one.
skipped(source) ==
    {i \in 1..Len(source) : keyOf(source[i]) \notin RecognizedKeys}

\* C16: parseSettings returns a config for every text, with path, blur,
\* opacity, size, position and repeat all present, each holding its
\* default ('', 0px, 1, cover, center center, no-repeat) or the value taken
\* from the text; lines without a colon and unknown keys change no field.
C16_ParserTotal ==
    last.op = "parse" =>
        LET r == last.result
            src == last.source
            given(k) == valueOf(src[Latest(occurrences(src, k))])
        IN
        /\ RecognizedKeys \ {"style"} \subseteq DOMAIN r
        /\ DOMAIN r \subseteq RecognizedKeys
        /\ r.path = IF occurrences(src, "path") = {} THEN ""
                    ELSE IF given("path") \in VaultFiles
                         THEN "app://vault/" \o given("path") ELSE ""
        /\ r.blur \in IF occurrences(src, "blur") = {} THEN {"0px"}
                      ELSE {given("blur"), given("blur") \o "px"}
        /\ r.opacity = IF occurrences(src, "opacity") = {} THEN "1"
                       ELSE given("opacity")
        /\ r.size = IF occurrences(src, "size") = {} THEN "cover"
                    ELSE given("size")
        /\ r.position = IF occurrences(src, "position") = {}
                        THEN "center center" ELSE given("position")
        /\ r.repeat = IF occurrences(src, "repeat") = {} THEN "no-repeat"
                      ELSE given("repeat")
        /\ r = parseSettings(keepLines(src, (1..Len(src)) \ skipped(src), 1))

C16_Witness ==
    /\ last.op = "parse"
    /\ Len(last.source) = 2
    /\ keyOf(last.source[1]) = Undefined
    /\ keyOf(last.source[2]) = "colour"
    /\ last.result.repeat = "no-repeat"

\* ------------------------------------------------- 10. life-cycle claims
\* C17: an apply made while there is no active leaf, or while the active
\* leaf has no view, changes no container and no body class; a reset for a
\* null leaf or a leaf without a view changes no container.
C17_NoViewNoOp ==
    [][/\ (last'.op = "batch" /\ activeLeaf \notin Views) =>
              (containers' = containers /\ body' = body)
       /\ (last'.op = "switch" /\ activeLeaf' \notin Views) =>
              containers' = containers]_vars

C17_Witness ==
    /\ last.op = "batch"
    /\ last.calls # <<>>
    /\ activeLeaf \notin Views
    /\ \E l \in Views : containers[l].layers # <<>>

\* C18: no container is ever in a mixed state: it has has-custom-bg iff it
\* has exactly one layer iff it has exactly one catalog style class, and it
\* never has more than one layer or more than one catalog style class.
C18_NoMixedState ==
    \A l \in Views :
        LET c == containers[l]
            has == "has-custom-bg" \in c.classList
            layers == Len(c.layers)
            styles == Cardinality(c.classList \cap CatalogClasses)
        IN /\ layers <= 1
           /\ styles <= 1
           /\ has <=> layers = 1
           /\ layers = 1 <=> styles = 1

\* C19: the info annotation of a rendered block holds the blur line
\* exactly when the parsed blur is not zero; with no blur line, blur: 0px
\* or blur: 0 it holds the image name only.
C19_BlurLineIffNonzero ==
    (last.op = "render" /\ last.result = "bg-marker") =>
        /\ last.info[1] = "a.png"
        /\ Len(last.info) = IF last.blur \in {"0px", "0"} THEN 1 ELSE 2

\* C20: while no save is in flight, a container whose background was
\* applied from a config without a style of its own carries the class of
\* the current global preference, and no other style class.
C20_FollowsPreference ==
    saving = 0 =>
        \A l \in Views :
            (/\ once[l] # <<>>
             /\ "style" \notin DOMAIN once[l][1].cfg
             /\ "has-custom-bg" \in containers[l].classList) =>
                StyleClassesOn(containers[l]) = {getClass(settings.styleMode)}

====
